---- MODULE Spec2Model ----
(***************************************************************************)
(* PinchPost: pinches (posts), claws (likes), repinches (reposts), karma,  *)
(* hashtags and the per-agent rate limiter.                                *)
(*                                                                         *)
(* Every route handler of src/routes/pinches (carried in                   *)
(* src/src/routes/search.ts, lines 61-337) is a sequence of autocommitted  *)
(* SQL statements separated by `await`.  The handlers open no transaction, *)
(* so one statement is one atomic step and the statements of concurrent    *)
(* requests interleave.  A request runs in a slot: a Start action takes a   *)
(* request and runs its handler up to and including its first statement,   *)
(* the step actions execute the following statements in program order.  A  *)
(* slot whose handler has returned is idle and shows its last request and  *)
(* response until it takes the next request.                               *)
(***************************************************************************)
EXTENDS Integers, Sequences, FiniteSets, TLC

\* ------------------------------------------------------------------ bounds
NumAgents == 2
NumSlots == 2
MaxPinches == 2
RacePinches == 1
MaxTime == 602
MaxEvents == 2
MaxKarma == 2
LogLen == 2
MaxDay == 129600

\* -------------------------------------------------------- program constants
PinchLimit == 1
PinchWindow == 300
ClawLimit == 30
ClawWindow == 3600
KarmaCap == 5
MinNameLength == 2
MaxNameLength == 32
FollowLimit == 50
FollowWindow == 86400
MaxContentLength == 280
Day == 86400
DefaultLimit == 10
MaxLimit == 30

Agents == 1..NumAgents
Slots == 1..NumSlots
PinchIds == 1..MaxPinches
NULL == 0

\* Clock advances a request handler can observe between two statements.
TickSteps == {299, 300, 301}

\* A token of a pinch's text: a plain word or "#" followed by a word.
Tok(h, w) == [hash |-> h, text |-> w]

\* String.prototype.toLowerCase on the words the model uses.
ToLowerCase(w) ==
  CASE w = "AI" -> "ai"
    [] w = "Ai" -> "ai"
    [] w = "Alice" -> "alice"
    [] OTHER -> w

\* Request bodies: trimmed length of the text and its tokens in order.
Contents ==
  { [len |-> 0, toks |-> <<>>],
    [len |-> 5, toks |-> << Tok(FALSE, "hello") >>],
    [len |-> 9, toks |-> << Tok(FALSE, "hello"), Tok(TRUE, "AI") >>],
    [len |-> 17, toks |-> << Tok(FALSE, "hello"), Tok(TRUE, "AI"), Tok(TRUE, "ai"),
                             Tok(TRUE, "AI") >>],
    [len |-> 281, toks |-> << Tok(FALSE, "hello") >>] }

NoContent == [len |-> 0, toks |-> <<>>]

\* Request bodies made of hashtags only: "#x", "#y", "#x #y".
TrendContents ==
  { [len |-> 2, toks |-> << Tok(TRUE, "x") >>],
    [len |-> 2, toks |-> << Tok(TRUE, "y") >>],
    [len |-> 5, toks |-> << Tok(TRUE, "x"), Tok(TRUE, "y") >>] }

\* Clock advances between requests, in hours' scale: 12 h and 24 h.
DaySteps == {43200, 86400}

\* The limit query parameter of GET /trending: absent, or a number.
NoQuery == -1
Limits == {NoQuery, 1, 50}

VARIABLES
  now,             \* wall clock (seconds), NOW() of the database
  agents,          \* table agents: id -> claimed, twitter_username, claimed_at
  names,           \* table agents, column name: number of rows per name
  follows,         \* table follows: number of rows per <<follower_id, following_id>>
  pinches,         \* table pinches: id -> row (live = FALSE: no such row)
  nextId,          \* SERIAL sequence of pinches.id
  claws,           \* table claws: set of <<agent_id, pinch_id>>
  repinches,       \* table repinches: set of <<agent_id, pinch_id>>
  hashtags,        \* table hashtags: tag -> row (live = FALSE: no such row)
  pinch_hashtags,  \* table pinch_hashtags: set of <<pinch_id, tag>>
  karma,           \* agents.karma
  rate_limits,     \* table rate_limits: <<agent_id, action>> -> created_at of each row
  pc,              \* per slot: the statement the handler executes next
  req,             \* per slot: the request being served
  loc,             \* per slot: the handler's local variables
  res,             \* per slot: the response
  serial,          \* TRUE: the server is given one request at a time
  log,             \* serial runs: the last LogLen requests served, oldest first
  trending         \* the last response of GET /trending

db == <<agents, names, follows, pinches, nextId, claws, repinches, hashtags, pinch_hashtags, karma,
        rate_limits>>
vars == <<now, agents, names, follows, pinches, nextId, claws, repinches, hashtags, pinch_hashtags, karma,
          rate_limits, pc, req, loc, res, serial, log, trending>>

Actions == {"pinch", "claw", "follow"}

\* What the oEmbed endpoint serves for a tweet URL: the user name in the URL
\* ("" when the URL does not match the pattern) and the texts the html contains.
Tweet(u, h) == [username |-> u, html |-> h]
NoTweet == Tweet("", {})

\* agents.verification_code, handed out at registration.
VerificationCode(a) == <<"code1", "code2", "code3">>[a]

\* The tweets requests refer to.
Tweets ==
  { Tweet("Alice", {"code1"}), Tweet("alice", {"code2"}),
    Tweet("bob", {"code1", "undefined"}), NoTweet }

\* verification_code values of the /claim form.
FormCodes == {VerificationCode(a) : a \in Agents} \cup {"bogus"}

\* What fetch() of the oEmbed URL can do.
FetchOutcomes == {"ok", "not_ok", "throw"}

NoReq == [op |-> "none", agent |-> 0, id |-> 0, content |-> NoContent,
          reply_to |-> NULL, quote_of |-> NULL, tweet |-> NoTweet, code |-> "",
          target |-> 0, name |-> <<>>]
\* What a handler keeps of a SELECTed pinch, and its other locals.
NoRow == [id |-> NULL, author_id |-> 0, reply_to |-> NULL]
NoLoc == [pinch |-> NoRow, tags |-> <<>>, rows |-> 0, agent |-> [id |-> 0]]
\* An agents row before verification (column defaults).
NoClaim == [claimed |-> FALSE, twitter_username |-> "", claimed_at |-> NULL]
\* A slot of the pinches table that holds no row.
NoPinch == [live |-> FALSE, author_id |-> 0, reply_to |-> NULL, quote_of |-> NULL,
            claws_count |-> 0, repinch_count |-> 0, reply_count |-> 0, created_at |-> 0]
NoTag == [live |-> FALSE, pinch_count |-> 0]

\* GREATEST without its floor.
GREATEST_unfloored(a, b) == a

\* SQL GREATEST of two integers.
GREATEST(a, b) == IF a > b THEN a ELSE b

\* ------------------------------------------------------------------ helpers

\* utils/hashtags.ts: tokens matching #word, lowercased, first occurrences kept
\* in order (the iteration order of the Set).
RECURSIVE Dedup(_, _)
Dedup(seq, seen) ==
  IF seq = <<>> THEN <<>>
  ELSE IF Head(seq) \in seen THEN Dedup(Tail(seq), seen)
       ELSE <<Head(seq)>> \o Dedup(Tail(seq), seen \cup {Head(seq)})

RECURSIVE Matches(_)
Matches(toks) ==
  IF toks = <<>> THEN <<>>
  ELSE IF Head(toks).hash THEN <<ToLowerCase(Head(toks).text)>> \o Matches(Tail(toks))
       ELSE Matches(Tail(toks))

\* extractHashtags without the Set: every match is returned.
extractHashtags_all(content) == Matches(content.toks)

extractHashtags(content) == Dedup(Matches(content.toks), {})

\* middleware/rateLimit: the policy registered for an action.
Policy(action) ==
  CASE action = "pinch" -> [max |-> PinchLimit, window |-> PinchWindow]
    [] action = "claw" -> [max |-> ClawLimit, window |-> ClawWindow]
    [] OTHER -> [max |-> FollowLimit, window |-> FollowWindow]

\* Rows of rate_limits of (agent, action) created within the trailing window.
RECURSIVE CountAfter(_, _)
CountAfter(seq, t) ==
  IF seq = <<>> THEN 0
  ELSE (IF Head(seq) > t THEN 1 ELSE 0) + CountAfter(Tail(seq), t)

\* checkRateLimit counting every row ever recorded, not those of the window.
checkRateLimit_lifetime(agent, action) ==
  Len(rate_limits[<<agent, action>>]) >= Policy(action).max

\* checkRateLimit(c, action): TRUE when the request is denied (429).
checkRateLimit(agent, action) ==
  CountAfter(rate_limits[<<agent, action>>], now - Policy(action).window)
    >= Policy(action).max

\* recordRateLimit(agent.id, action): INSERT one row stamped NOW().
recordRateLimit(agent, action) ==
  [rate_limits EXCEPT ![<<agent, action>>] = Append(@, now)]

Exists(id) == id \in PinchIds /\ pinches[id].live

\* ---- agent names: sequences of characters

Space == " "
\* String.prototype.toLowerCase, on the characters of the model.
Lower(c) == CASE c = "A" -> "a" [] c = "B" -> "b" [] OTHER -> c
\* The characters /[^a-z0-9_-]/g leaves in place.
AllowedChars == {"a", "b", "0", "_", "-"}

\* String.prototype.trim: leading and trailing white space removed.
trim(n) ==
  LET ink == {i \in DOMAIN n : n[i] # Space} IN
  IF ink = {} THEN <<>>
  ELSE SubSeq(n, CHOOSE i \in ink : \A j \in ink : i <= j,
                 CHOOSE i \in ink : \A j \in ink : i >= j)
toLowerCase(n) == [i \in DOMAIN n |-> Lower(n[i])]
Allowed(c) == c \in AllowedChars
\* agents.ts 34: String(body.name).trim().toLowerCase().replace(/[^a-z0-9_-]/g, "")
normalize(n) == SelectSeq(toLowerCase(trim(n)), Allowed)
\* agents.ts 35: the length test on the normalised name
ValidName(n) == ~(Len(n) < MinNameLength \/ Len(n) > MaxNameLength)

\* The names registrations of the model ask for: spellings of "ab", another
\* name, names too short, and names of 32 and 33 characters.
RawNames ==
  { <<>>, <<"a", "b">>, <<Space, "A", "b", Space>>, <<"a", "!", "b">>, <<"A", "_", "B">>,
    <<"a", "!">>, <<Space, Space>>,
    [i \in 1..MaxNameLength |-> "b"], [i \in 1..(MaxNameLength + 1) |-> "a"] }
NormalNames == {normalize(n) : n \in RawNames}

Range(f) == {f[i] : i \in DOMAIN f}

\* The tags a request body of the model can carry.
TagNames == UNION {Range(extractHashtags(c)) : c \in Contents \cup TrendContents}

\* Result rows of a SELECT over a set, in some fixed order.
RECURSIVE SetToSeq(_)
SetToSeq(S) ==
  IF S = {} THEN <<>>
  ELSE LET x == CHOOSE y \in S : TRUE IN <<x>> \o SetToSeq(S \ {x})

\* The latest of a sequence of times, -1 when there is none.
RECURSIVE Latest(_)
Latest(seq) ==
  IF seq = <<>> THEN -1
  ELSE LET m == Latest(Tail(seq)) IN IF Head(seq) > m THEN Head(seq) ELSE m

\* What the tables hold for request r at the moment it arrives: whether its
\* pinch exists, whether the agent's claw (repinch) on it is there, the
\* pinch's counter, its author and the author's karma, the agent's latest
\* rate-limit row for pinching, the next pinch id, and the hashtags and karma
\* columns.
Snap(r) ==
  LET ex == Exists(r.id)
      au == IF ex THEN pinches[r.id].author_id ELSE 0 IN
  [exists |-> ex,
   related |-> IF r.op = "repinch" THEN <<r.agent, r.id>> \in repinches
               ELSE <<r.agent, r.id>> \in claws,
   count |-> IF ~ex THEN 0
             ELSE IF r.op = "repinch" THEN pinches[r.id].repinch_count
             ELSE pinches[r.id].claws_count,
   author |-> au,
   karma |-> IF ex THEN karma[au] ELSE 0,
   last |-> Latest(rate_limits[<<r.agent, "pinch">>]),
   nextId |-> nextId,
   tags |-> hashtags,
   karmas |-> karma]

\* Serial runs keep a log entry per request: the request, its arrival time,
\* the snapshot taken on arrival and the response ("none" while it runs).
Logged(r, x) ==
  IF serial
  THEN (IF Len(log) < LogLen THEN log ELSE Tail(log))
         \o << [req |-> r, t |-> now, pre |-> Snap(r), res |-> x] >>
  ELSE log
Answered(x) ==
  IF serial /\ log # <<>> THEN [log EXCEPT ![Len(log)].res = x] ELSE log

\* The handler of slot s goes on to statement l with locals L.
Move(s, l, L) ==
  /\ pc' = [pc EXCEPT ![s] = l]
  /\ res' = [res EXCEPT ![s] = "none"]
  /\ loc' = [loc EXCEPT ![s] = L]
  /\ req' = req
  /\ UNCHANGED <<serial, log, trending>>
Goto(s, l) == Move(s, l, loc[s])
\* Slot s takes request r and its handler reaches statement l with locals L.
Enter(s, r, l, L) ==
  /\ serial => \A t \in Slots : pc[t] = "idle"
  /\ pc' = [pc EXCEPT ![s] = l]
  /\ res' = [res EXCEPT ![s] = "none"]
  /\ loc' = [loc EXCEPT ![s] = L]
  /\ req' = [req EXCEPT ![s] = r]
  /\ log' = Logged(r, "none")
  /\ UNCHANGED <<serial, trending>>
\* The handler of slot s returns response r (a thrown error is the 500
\* "Crash"); its locals are gone.
Reply(s, r) ==
  /\ pc' = [pc EXCEPT ![s] = "idle"]
  /\ res' = [res EXCEPT ![s] = r]
  /\ loc' = [loc EXCEPT ![s] = NoLoc]
  /\ req' = req
  /\ log' = Answered(r)
  /\ UNCHANGED <<serial, trending>>
\* Slot s takes request r and its handler returns response x at once.
Refuse(s, r, x) ==
  /\ serial => \A t \in Slots : pc[t] = "idle"
  /\ pc' = [pc EXCEPT ![s] = "idle"]
  /\ res' = [res EXCEPT ![s] = x]
  /\ loc' = [loc EXCEPT ![s] = NoLoc]
  /\ req' = [req EXCEPT ![s] = r]
  /\ log' = Logged(r, x)
  /\ UNCHANGED <<serial, trending>>

\* ------------------------------------------------------------------- Init
\* The state after initDB on an empty database, with the agents registered.
Tables ==
  /\ agents = [a \in Agents |-> NoClaim]
  /\ follows = [e \in Agents \X Agents |-> 0]
  /\ names = [n \in NormalNames |-> 0]
  /\ now = 0
  /\ pinches = [i \in PinchIds |-> NoPinch]
  /\ nextId = 1
  /\ claws = {}
  /\ repinches = {}
  /\ hashtags = [t \in TagNames |-> NoTag]
  /\ pinch_hashtags = {}
  /\ karma = [a \in Agents |-> 0]
  /\ rate_limits = [k \in Agents \X Actions |-> <<>>]
  /\ pc = [s \in Slots |-> "idle"]
  /\ req = [s \in Slots |-> NoReq]
  /\ loc = [s \in Slots |-> NoLoc]
  /\ res = [s \in Slots |-> "none"]
  /\ log = <<>>
  /\ trending = [at |-> -1, limit |-> 0, rows |-> <<>>]

Init == Tables /\ serial = FALSE
InitSerial == Tables /\ serial = TRUE

\* --------------------------------------------------- POST /pinches (create)

\* Pinch requests accepted but not yet past their INSERT (bounds the id space).
PendingInserts ==
  Cardinality({s \in Slots : pc[s] \in {"p_reply", "p_quote", "p_insert"}})

\* lines 99-113: the request arrives, the body is validated and the rate
\* limiter is consulted.  C, R, Q: the bodies, reply_to and quote_of values
\* requests are drawn from; n: the highest id the model lets the sequence hand out.
StartPinch(s, C, R, Q, n) ==
  /\ pc[s] = "idle"
  /\ nextId + PendingInserts <= n
  /\ \E a \in Agents, c \in C, r \in R, q \in Q :
       LET rq == [NoReq EXCEPT !.op = "pinch", !.agent = a, !.content = c,
                                !.reply_to = r, !.quote_of = q] IN
       IF c.len = 0 THEN Refuse(s, rq, "ContentEmpty")
       ELSE IF c.len > MaxContentLength THEN Refuse(s, rq, "ContentTooLong")
       ELSE IF checkRateLimit(a, "pinch") THEN Refuse(s, rq, "RateLimited")
       ELSE IF r # NULL THEN Enter(s, rq, "p_reply", NoLoc)
       ELSE IF q # NULL THEN Enter(s, rq, "p_quote", NoLoc)
       ELSE Enter(s, rq, "p_insert", NoLoc)
  /\ UNCHANGED <<now, db>>

\* lines 116-119: SELECT the parent
PinchReply(s) ==
  /\ pc[s] = "p_reply"
  /\ IF ~Exists(req[s].reply_to) THEN Reply(s, "ParentNotFound")
     ELSE IF req[s].quote_of # NULL THEN Goto(s, "p_quote")
     ELSE Goto(s, "p_insert")
  /\ UNCHANGED <<now, db>>

\* lines 122-125: SELECT the quoted pinch
PinchQuote(s) ==
  /\ pc[s] = "p_quote"
  /\ IF ~Exists(req[s].quote_of) THEN Reply(s, "QuotedNotFound")
     ELSE Goto(s, "p_insert")
  /\ UNCHANGED <<now, db>>

\* lines 127-131: INSERT INTO pinches.  The id is drawn from the sequence
\* before the foreign keys are checked; a missing target raises.
PinchInsert(s) ==
  /\ pc[s] = "p_insert"
  /\ nextId' = nextId + 1
  /\ IF \/ (req[s].reply_to # NULL /\ ~Exists(req[s].reply_to))
        \/ (req[s].quote_of # NULL /\ ~Exists(req[s].quote_of))
     THEN /\ Reply(s, "Crash")
          /\ UNCHANGED pinches
     ELSE /\ pinches' = [pinches EXCEPT ![nextId] =
                 [live |-> TRUE, author_id |-> req[s].agent,
                  reply_to |-> req[s].reply_to, quote_of |-> req[s].quote_of,
                  claws_count |-> 0, repinch_count |-> 0, reply_count |-> 0,
                  created_at |-> now]]
          /\ LET L == [loc[s] EXCEPT !.pinch = [id |-> nextId, author_id |-> req[s].agent,
                                                reply_to |-> req[s].reply_to],
                                     !.tags = extractHashtags(req[s].content)] IN
               IF req[s].reply_to # NULL THEN Move(s, "p_parent", L)
               ELSE IF L.tags # <<>> THEN Move(s, "p_upsert", L)
               ELSE Move(s, "p_karma", L)
  /\ UNCHANGED <<now, agents, names, follows, claws, repinches, hashtags, pinch_hashtags, karma, rate_limits>>

\* PinchParent leaving the parent's reply_count as it is.
PinchParent_skipped(s) ==
  /\ pc[s] = "p_parent"
  /\ IF loc[s].tags # <<>> THEN Goto(s, "p_upsert") ELSE Goto(s, "p_karma")
  /\ UNCHANGED <<now, db>>

\* lines 134-136: UPDATE the parent's reply_count (no row: nothing happens)
PinchParent(s) ==
  /\ pc[s] = "p_parent"
  /\ pinches' = IF Exists(req[s].reply_to)
                THEN [pinches EXCEPT ![req[s].reply_to].reply_count = @ + 1]
                ELSE pinches
  /\ IF loc[s].tags # <<>> THEN Goto(s, "p_upsert") ELSE Goto(s, "p_karma")
  /\ UNCHANGED <<now, agents, names, follows, nextId, claws, repinches, hashtags, pinch_hashtags, karma,
                 rate_limits>>

\* processHashtags, lines 81-85: upsert the next tag
PinchUpsert(s) ==
  /\ pc[s] = "p_upsert"
  /\ LET tag == Head(loc[s].tags) IN
       hashtags' = [hashtags EXCEPT ![tag] =
                      IF @.live THEN [@ EXCEPT !.pinch_count = @ + 1]
                      ELSE [live |-> TRUE, pinch_count |-> 1]]
  /\ Goto(s, "p_link")
  /\ UNCHANGED <<now, agents, names, follows, pinches, nextId, claws, repinches, pinch_hashtags, karma,
                 rate_limits>>

\* processHashtags, lines 88-91: link the pinch to the tag; the pinch row is a
\* foreign key, so the INSERT raises when the pinch is gone.
PinchLink(s) ==
  /\ pc[s] = "p_link"
  /\ LET tag == Head(loc[s].tags)
         rest == Tail(loc[s].tags) IN
       IF ~Exists(loc[s].pinch.id)
       THEN /\ Reply(s, "Crash")
            /\ UNCHANGED pinch_hashtags
       ELSE /\ pinch_hashtags' = pinch_hashtags \cup {<<loc[s].pinch.id, tag>>}
            /\ Move(s, IF rest # <<>> THEN "p_upsert" ELSE "p_karma",
                    [loc[s] EXCEPT !.tags = rest])
  /\ UNCHANGED <<now, agents, names, follows, pinches, nextId, claws, repinches, hashtags, karma, rate_limits>>

\* line 142: +1 karma for pinching
PinchKarma(s) ==
  /\ pc[s] = "p_karma"
  /\ karma' = [karma EXCEPT ![req[s].agent] = @ + 1]
  /\ Goto(s, "p_record")
  /\ UNCHANGED <<now, agents, names, follows, pinches, nextId, claws, repinches, hashtags, pinch_hashtags,
                 rate_limits>>

\* line 145: recordRateLimit(agent.id, "pinch"), then the 201 response
PinchRecord(s) ==
  /\ pc[s] = "p_record"
  /\ rate_limits' = recordRateLimit(req[s].agent, "pinch")
  /\ Reply(s, "Created")
  /\ UNCHANGED <<now, agents, names, follows, pinches, nextId, claws, repinches, hashtags, pinch_hashtags,
                 karma>>

\* ------------------------------------------------- DELETE /pinches/:id

\* StartDelete without the comparison of author_id with the requester.
StartDelete_anyone(s, I) ==
  /\ pc[s] = "idle"
  /\ \E a \in Agents, id \in I :
       LET rq == [NoReq EXCEPT !.op = "delete", !.agent = a, !.id = id] IN
       IF ~Exists(id) THEN Refuse(s, rq, "NotFound")
       ELSE Enter(s, rq,
                  IF pinches[id].reply_to # NULL THEN "d_parent" ELSE "d_tags",
                  [NoLoc EXCEPT !.pinch = [id |-> id, author_id |-> pinches[id].author_id,
                                           reply_to |-> pinches[id].reply_to]])
  /\ UNCHANGED <<now, db>>

\* lines 213-220: the request arrives; SELECT id, author_id, reply_to
StartDelete(s, I) ==
  /\ pc[s] = "idle"
  /\ \E a \in Agents, id \in I :
       LET rq == [NoReq EXCEPT !.op = "delete", !.agent = a, !.id = id] IN
       IF ~Exists(id) THEN Refuse(s, rq, "NotFound")
       ELSE IF pinches[id].author_id # a THEN Refuse(s, rq, "NotOwner")
       ELSE Enter(s, rq,
                  IF pinches[id].reply_to # NULL THEN "d_parent" ELSE "d_tags",
                  [NoLoc EXCEPT !.pinch = [id |-> id, author_id |-> pinches[id].author_id,
                                           reply_to |-> pinches[id].reply_to]])
  /\ UNCHANGED <<now, db>>

\* lines 223-225: decrement the parent's reply_count, floor 0
DeleteParent(s) ==
  /\ pc[s] = "d_parent"
  /\ LET parent == loc[s].pinch.reply_to IN
       pinches' = IF Exists(parent)
                  THEN [pinches EXCEPT ![parent].reply_count = GREATEST(@ - 1, 0)]
                  ELSE pinches
  /\ Goto(s, "d_tags")
  /\ UNCHANGED <<now, agents, names, follows, nextId, claws, repinches, hashtags, pinch_hashtags, karma,
                 rate_limits>>

\* DeleteTags taking back the karma the author got for the pinch.
DeleteTags_unkarma(s) ==
  /\ pc[s] = "d_tags"
  /\ LET tags == SetToSeq({t \in TagNames : <<req[s].id, t>> \in pinch_hashtags}) IN
       Move(s, IF tags # <<>> THEN "d_tagdec" ELSE "d_delete", [loc[s] EXCEPT !.tags = tags])
  /\ karma' = [karma EXCEPT ![req[s].agent] = GREATEST(@ - 1, 0)]
  /\ UNCHANGED <<now, agents, names, follows, pinches, nextId, claws, repinches, hashtags,
                 pinch_hashtags, rate_limits>>

\* lines 228-230: SELECT the hashtags linked to the pinch
DeleteTags(s) ==
  /\ pc[s] = "d_tags"
  /\ LET tags == SetToSeq({t \in TagNames : <<req[s].id, t>> \in pinch_hashtags}) IN
       Move(s, IF tags # <<>> THEN "d_tagdec" ELSE "d_delete", [loc[s] EXCEPT !.tags = tags])
  /\ UNCHANGED <<now, db>>

\* lines 231-233: decrement one hashtag's pinch_count, floor 0
DeleteTagDec(s) ==
  /\ pc[s] = "d_tagdec"
  /\ LET tag == Head(loc[s].tags)
         rest == Tail(loc[s].tags) IN
       /\ hashtags' = [hashtags EXCEPT ![tag].pinch_count = GREATEST(@ - 1, 0)]
       /\ Move(s, IF rest # <<>> THEN "d_tagdec" ELSE "d_delete",
               [loc[s] EXCEPT !.tags = rest])
  /\ UNCHANGED <<now, agents, names, follows, pinches, nextId, claws, repinches, pinch_hashtags, karma,
                 rate_limits>>

\* DELETE FROM pinches that leaves the other rows as they are.
DeleteRow_dangling(id) ==
  [i \in PinchIds |-> IF i = id THEN NoPinch ELSE pinches[i]]

\* line 235: DELETE FROM pinches.  db.ts: claws, repinches and pinch_hashtags
\* rows of the pinch go with it (ON DELETE CASCADE); reply_to and quote_of of
\* other pinches that point at it become NULL (ON DELETE SET NULL).
DeleteRow(id) ==
  [i \in PinchIds |->
     IF i = id THEN NoPinch
     ELSE [pinches[i] EXCEPT
             !.reply_to = IF @ = id THEN NULL ELSE @,
             !.quote_of = IF @ = id THEN NULL ELSE @]]

\* DeleteDelete removing the pinches row alone.
DeleteDelete_alone(s) ==
  /\ pc[s] = "d_delete"
  /\ pinches' = IF Exists(req[s].id) THEN DeleteRow(req[s].id) ELSE pinches
  /\ Reply(s, "Deleted")
  /\ UNCHANGED <<now, agents, names, follows, nextId, claws, repinches, hashtags, pinch_hashtags, karma,
                 rate_limits>>

DeleteDelete(s) ==
  /\ pc[s] = "d_delete"
  /\ LET id == req[s].id IN
       IF Exists(id)
       THEN /\ pinches' = DeleteRow(id)
            /\ claws' = {c \in claws : c[2] # id}
            /\ repinches' = {c \in repinches : c[2] # id}
            /\ pinch_hashtags' = {l \in pinch_hashtags : l[1] # id}
       ELSE UNCHANGED <<pinches, claws, repinches, pinch_hashtags>>
  /\ Reply(s, "Deleted")
  /\ UNCHANGED <<now, agents, names, follows, nextId, hashtags, karma, rate_limits>>

\* ------------------------------------------- POST /pinches/:id/claw (toggle)

\* Rows of rate_limits recorded for claws, all agents together.
RECURSIVE SumEvents(_)
SumEvents(A) ==
  IF A = {} THEN 0
  ELSE LET a == CHOOSE x \in A : TRUE IN
         Len(rate_limits[<<a, "claw">>]) + SumEvents(A \ {a})
ClawEvents == SumEvents(Agents)

\* lines 243-249: the request arrives; SELECT id, author_id.  A: the agents
\* that send claws; n: the model stops issuing claws once n claws have been
\* recorded, except to remove a claw that is there.
ClawArrives(s, A, I, n) ==
  /\ pc[s] = "idle"
  /\ \E a \in A, id \in I :
       /\ \/ ClawEvents < n
          \/ (ClawEvents = n /\ <<a, id>> \in claws)
          \/ checkRateLimit(a, "claw")
       /\ IF ~Exists(id)
          THEN Refuse(s, [NoReq EXCEPT !.op = "claw", !.agent = a, !.id = id], "NotFound")
          ELSE Enter(s, [NoReq EXCEPT !.op = "claw", !.agent = a, !.id = id], "c_existing",
                     [NoLoc EXCEPT !.pinch = [id |-> id, author_id |-> pinches[id].author_id,
                                              reply_to |-> NULL]])
  /\ UNCHANGED <<now, db>>

StartClaw(s, I) == ClawArrives(s, Agents, I, MaxEvents)

\* ClawExisting consulting the rate limiter before it looks for the row.
ClawExisting_limited(s) ==
  /\ pc[s] = "c_existing"
  /\ IF checkRateLimit(req[s].agent, "claw") THEN Reply(s, "RateLimited")
     ELSE IF <<req[s].agent, req[s].id>> \in claws THEN Goto(s, "c_delete")
     ELSE Goto(s, "c_insert")
  /\ UNCHANGED <<now, db>>

\* lines 252-256: SELECT 1 FROM claws, and the branch on it
ClawExisting(s) ==
  /\ pc[s] = "c_existing"
  /\ IF <<req[s].agent, req[s].id>> \in claws THEN Goto(s, "c_delete")
     ELSE Goto(s, "c_rate")
  /\ UNCHANGED <<now, db>>

\* line 257: DELETE FROM claws (rows: how many rows the statement removed)
ClawDelete(s) ==
  /\ pc[s] = "c_delete"
  /\ claws' = claws \ {<<req[s].agent, req[s].id>>}
  /\ Move(s, "c_dec",
          [loc[s] EXCEPT !.rows = IF <<req[s].agent, req[s].id>> \in claws THEN 1 ELSE 0])
  /\ UNCHANGED <<now, agents, names, follows, pinches, nextId, repinches, hashtags, pinch_hashtags, karma,
                 rate_limits>>

\* ClawDec leaving claws_count as it is.
ClawDec_skipped(s) ==
  /\ pc[s] = "c_dec"
  /\ IF loc[s].pinch.author_id # req[s].agent THEN Goto(s, "c_unkarma")
     ELSE Reply(s, "Unclawed")
  /\ UNCHANGED <<now, db>>

\* line 258: claws_count = GREATEST(claws_count - 1, 0)
ClawDec(s) ==
  /\ pc[s] = "c_dec"
  /\ pinches' = IF Exists(req[s].id)
                THEN [pinches EXCEPT ![req[s].id].claws_count = GREATEST(@ - 1, 0)]
                ELSE pinches
  /\ IF loc[s].pinch.author_id # req[s].agent THEN Goto(s, "c_unkarma")
     ELSE Reply(s, "Unclawed")
  /\ UNCHANGED <<now, agents, names, follows, nextId, claws, repinches, hashtags, pinch_hashtags, karma,
                 rate_limits>>

\* ClawUnkarma taking the karma from the agent that unclaws.
ClawUnkarma_self(s) ==
  /\ pc[s] = "c_unkarma"
  /\ karma' = [karma EXCEPT ![req[s].agent] = GREATEST(@ - 1, 0)]
  /\ Reply(s, "Unclawed")
  /\ UNCHANGED <<now, agents, names, follows, pinches, nextId, claws, repinches, hashtags, pinch_hashtags,
                 rate_limits>>

\* lines 260-263: the author's karma = GREATEST(karma - 1, 0)
ClawUnkarma(s) ==
  /\ pc[s] = "c_unkarma"
  /\ karma' = [karma EXCEPT ![loc[s].pinch.author_id] = GREATEST(@ - 1, 0)]
  /\ Reply(s, "Unclawed")
  /\ UNCHANGED <<now, agents, names, follows, pinches, nextId, claws, repinches, hashtags, pinch_hashtags,
                 rate_limits>>

\* ClawRate recording an event for the request it denies.
ClawRate_recorded(s) ==
  /\ pc[s] = "c_rate"
  /\ IF checkRateLimit(req[s].agent, "claw")
     THEN Reply(s, "RateLimited") /\ rate_limits' = recordRateLimit(req[s].agent, "claw")
     ELSE Goto(s, "c_insert") /\ UNCHANGED rate_limits
  /\ UNCHANGED <<now, agents, names, follows, pinches, nextId, claws, repinches, hashtags,
                 pinch_hashtags, karma>>

\* lines 267-268: checkRateLimit(c, "claw")
ClawRate(s) ==
  /\ pc[s] = "c_rate"
  /\ IF checkRateLimit(req[s].agent, "claw") THEN Reply(s, "RateLimited")
     ELSE Goto(s, "c_insert")
  /\ UNCHANGED <<now, db>>

\* line 270: INSERT INTO claws; the primary key (agent_id, pinch_id) and the
\* foreign key to pinches make the statement raise.
ClawInsert(s) ==
  /\ pc[s] = "c_insert"
  /\ IF <<req[s].agent, req[s].id>> \in claws \/ ~Exists(req[s].id)
     THEN Reply(s, "Crash") /\ claws' = claws
     ELSE claws' = claws \cup {<<req[s].agent, req[s].id>>} /\ Goto(s, "c_inc")
  /\ UNCHANGED <<now, agents, names, follows, pinches, nextId, repinches, hashtags, pinch_hashtags, karma,
                 rate_limits>>

\* line 271: claws_count = claws_count + 1
ClawInc(s) ==
  /\ pc[s] = "c_inc"
  /\ pinches' = IF Exists(req[s].id)
                THEN [pinches EXCEPT ![req[s].id].claws_count = @ + 1]
                ELSE pinches
  /\ Goto(s, "c_record")
  /\ UNCHANGED <<now, agents, names, follows, nextId, claws, repinches, hashtags, pinch_hashtags, karma,
                 rate_limits>>

\* line 272: recordRateLimit(agent.id, "claw")
ClawRecord(s) ==
  /\ pc[s] = "c_record"
  /\ rate_limits' = recordRateLimit(req[s].agent, "claw")
  /\ IF loc[s].pinch.author_id # req[s].agent THEN Goto(s, "c_karma")
     ELSE Reply(s, "Clawed")
  /\ UNCHANGED <<now, agents, names, follows, pinches, nextId, claws, repinches, hashtags, pinch_hashtags,
                 karma>>

\* lines 275-279: +1 karma to the author
ClawKarma(s) ==
  /\ pc[s] = "c_karma"
  /\ karma' = [karma EXCEPT ![loc[s].pinch.author_id] = @ + 1]
  /\ Reply(s, "Clawed")
  /\ UNCHANGED <<now, agents, names, follows, pinches, nextId, claws, repinches, hashtags, pinch_hashtags,
                 rate_limits>>

\* ---------------------------------------- POST /pinches/:id/repinch (toggle)

\* lines 285-291: the request arrives; SELECT id, author_id.  The model stops
\* issuing repinches once some karma has reached MaxKarma, except, when
\* requests are served one at a time, to remove a repinch that is there.
\* k: the karma at which the model stops issuing repinches; back: whether it
\* still issues the removal of a repinch that is there.
RepinchCapped(s, A, I, k, back) ==
  /\ pc[s] = "idle"
  /\ \E a \in A, id \in I :
       /\ \/ \A b \in Agents : karma[b] < k
          \/ (back /\ <<a, id>> \in repinches)
       /\ IF ~Exists(id)
          THEN Refuse(s, [NoReq EXCEPT !.op = "repinch", !.agent = a, !.id = id], "NotFound")
          ELSE Enter(s, [NoReq EXCEPT !.op = "repinch", !.agent = a, !.id = id], "r_existing",
                     [NoLoc EXCEPT !.pinch = [id |-> id, author_id |-> pinches[id].author_id,
                                              reply_to |-> NULL]])
  /\ UNCHANGED <<now, db>>

RepinchArrives(s, A, I) == RepinchCapped(s, A, I, MaxKarma, serial)

StartRepinch(s, I) == RepinchArrives(s, Agents, I)

\* lines 293-297: SELECT 1 FROM repinches, and the branch on it
RepinchExisting(s) ==
  /\ pc[s] = "r_existing"
  /\ IF <<req[s].agent, req[s].id>> \in repinches THEN Goto(s, "r_delete")
     ELSE Goto(s, "r_insert")
  /\ UNCHANGED <<now, db>>

\* line 298: DELETE FROM repinches
RepinchDelete(s) ==
  /\ pc[s] = "r_delete"
  /\ repinches' = repinches \ {<<req[s].agent, req[s].id>>}
  /\ Move(s, "r_dec",
          [loc[s] EXCEPT !.rows = IF <<req[s].agent, req[s].id>> \in repinches THEN 1 ELSE 0])
  /\ UNCHANGED <<now, agents, names, follows, pinches, nextId, claws, hashtags, pinch_hashtags, karma,
                 rate_limits>>

\* lines 299-300: repinch_count = GREATEST(repinch_count - 1, 0); karma stays
RepinchDec(s) ==
  /\ pc[s] = "r_dec"
  /\ pinches' = IF Exists(req[s].id)
                THEN [pinches EXCEPT ![req[s].id].repinch_count = GREATEST(@ - 1, 0)]
                ELSE pinches
  /\ Reply(s, "Unrepinched")
  /\ UNCHANGED <<now, agents, names, follows, nextId, claws, repinches, hashtags, pinch_hashtags, karma,
                 rate_limits>>

\* line 303: INSERT INTO repinches (primary key, foreign key to pinches)
RepinchInsert(s) ==
  /\ pc[s] = "r_insert"
  /\ IF <<req[s].agent, req[s].id>> \in repinches \/ ~Exists(req[s].id)
     THEN Reply(s, "Crash") /\ repinches' = repinches
     ELSE repinches' = repinches \cup {<<req[s].agent, req[s].id>>} /\ Goto(s, "r_inc")
  /\ UNCHANGED <<now, agents, names, follows, pinches, nextId, claws, hashtags, pinch_hashtags, karma,
                 rate_limits>>

\* RepinchInc going on to the karma statement whoever the author is.
RepinchInc_always(s) ==
  /\ pc[s] = "r_inc"
  /\ pinches' = IF Exists(req[s].id)
                THEN [pinches EXCEPT ![req[s].id].repinch_count = @ + 1]
                ELSE pinches
  /\ Goto(s, "r_karma")
  /\ UNCHANGED <<now, agents, names, follows, nextId, claws, repinches, hashtags, pinch_hashtags, karma,
                 rate_limits>>

\* line 304: repinch_count = repinch_count + 1
RepinchInc(s) ==
  /\ pc[s] = "r_inc"
  /\ pinches' = IF Exists(req[s].id)
                THEN [pinches EXCEPT ![req[s].id].repinch_count = @ + 1]
                ELSE pinches
  /\ IF loc[s].pinch.author_id # req[s].agent THEN Goto(s, "r_karma")
     ELSE Reply(s, "Repinched")
  /\ UNCHANGED <<now, agents, names, follows, nextId, claws, repinches, hashtags, pinch_hashtags, karma,
                 rate_limits>>

\* RepinchKarma giving what a claw gives.
RepinchKarma_one(s) ==
  /\ pc[s] = "r_karma"
  /\ karma' = [karma EXCEPT ![loc[s].pinch.author_id] = @ + 1]
  /\ Reply(s, "Repinched")
  /\ UNCHANGED <<now, agents, names, follows, pinches, nextId, claws, repinches, hashtags, pinch_hashtags,
                 rate_limits>>

\* lines 307-311: +2 karma to the author
RepinchKarma(s) ==
  /\ pc[s] = "r_karma"
  /\ karma' = [karma EXCEPT ![loc[s].pinch.author_id] = @ + 2]
  /\ Reply(s, "Repinched")
  /\ UNCHANGED <<now, agents, names, follows, pinches, nextId, claws, repinches, hashtags, pinch_hashtags,
                 rate_limits>>

\* ------------------------------------- POST, DELETE /agents/:name/follow

\* The agents a :name can resolve to; 0: no agent of that name.
Targets == Agents \cup {0}

\* Some row of follows says that a follows b.
Following(a, b) == follows[<<a, b>>] > 0

\* agents.ts 300-308: the request arrives and the rate limiter is consulted.
\* A: the agents that send follows; n: the model stops issuing follows of an
\* agent once n of them have been recorded, unless the limiter refuses them.
FollowArrives(s, A, n) ==
  /\ pc[s] = "idle"
  /\ \E a \in A, t \in Targets :
       LET rq == [NoReq EXCEPT !.op = "follow", !.agent = a, !.target = t] IN
       /\ Len(rate_limits[<<a, "follow">>]) < n \/ checkRateLimit(a, "follow")
       /\ IF checkRateLimit(a, "follow") THEN Refuse(s, rq, "RateLimited")
          ELSE Enter(s, rq, "f_target", NoLoc)
  /\ UNCHANGED <<now, db>>

StartFollow(s) == FollowArrives(s, Agents, MaxEvents)

\* agents.ts 310-312: SELECT the target by name; refuse oneself
FollowTarget(s) ==
  /\ pc[s] = "f_target"
  /\ IF req[s].target \notin Agents THEN Reply(s, "NotFound")
     ELSE IF req[s].target = req[s].agent THEN Reply(s, "SelfReference")
     ELSE Goto(s, "f_insert")
  /\ UNCHANGED <<now, db>>

\* An INSERT into follows that adds its row whatever the table holds.
FollowInsert_again(s) ==
  /\ pc[s] = "f_insert"
  /\ follows' = [follows EXCEPT ![<<req[s].agent, req[s].target>>] = @ + 1]
  /\ Move(s, "f_record", [loc[s] EXCEPT !.rows = 1])
  /\ UNCHANGED <<now, agents, names, pinches, nextId, claws, repinches, hashtags, pinch_hashtags,
                 karma, rate_limits>>

\* agents.ts 314-318: INSERT INTO follows ... ON CONFLICT DO NOTHING, under
\* PRIMARY KEY (follower_id, following_id) (db.ts 59-66): a row of the same
\* pair is a conflict and nothing is inserted (the statement reports 0 rows).
FollowInsert(s) ==
  /\ pc[s] = "f_insert"
  /\ follows' = IF Following(req[s].agent, req[s].target) THEN follows
                ELSE [follows EXCEPT ![<<req[s].agent, req[s].target>>] = @ + 1]
  /\ Move(s, "f_record",
          [loc[s] EXCEPT !.rows = IF Following(req[s].agent, req[s].target) THEN 0 ELSE 1])
  /\ UNCHANGED <<now, agents, names, pinches, nextId, claws, repinches, hashtags, pinch_hashtags,
                 karma, rate_limits>>

\* agents.ts 320-322: recordRateLimit(agent.id, "follow"), then the response
FollowRecord(s) ==
  /\ pc[s] = "f_record"
  /\ rate_limits' = recordRateLimit(req[s].agent, "follow")
  /\ Reply(s, "Followed")
  /\ UNCHANGED <<now, agents, names, follows, pinches, nextId, claws, repinches, hashtags,
                 pinch_hashtags, karma>>

\* agents.ts 328-333: the request arrives; SELECT the target by name
UnfollowArrives(s, A) ==
  /\ pc[s] = "idle"
  /\ \E a \in A, t \in Targets :
       LET rq == [NoReq EXCEPT !.op = "unfollow", !.agent = a, !.target = t] IN
       IF t \notin Agents THEN Refuse(s, rq, "NotFound")
       ELSE Enter(s, rq, "u_delete", NoLoc)
  /\ UNCHANGED <<now, db>>

StartUnfollow(s) == UnfollowArrives(s, Agents)

\* agents.ts 335-339: DELETE FROM follows, then the response
UnfollowDelete(s) ==
  /\ pc[s] = "u_delete"
  /\ follows' = [follows EXCEPT ![<<req[s].agent, req[s].target>>] = 0]
  /\ Reply(s, "Unfollowed")
  /\ UNCHANGED <<now, agents, names, pinches, nextId, claws, repinches, hashtags, pinch_hashtags,
                 karma, rate_limits>>

FollowSteps(s) == FollowTarget(s) \/ FollowInsert(s) \/ FollowRecord(s)

\* ------------------------------------------------ failing statements

\* A statement of a running handler is rejected by the database client (the
\* connection is lost, the statement times out): the await throws, nothing
\* catches it, the request ends in a 500.  No handler opens a transaction
\* (sql.begin), so what its earlier statements wrote stays.  P: the
\* statements that can fail.
Fails(s, P) ==
  /\ pc[s] \in P
  /\ Reply(s, "Crash")
  /\ UNCHANGED <<now, db>>

\* The statements of pinches.post("/") after its INSERT (search.ts 134-145).
AfterInsert == {"p_parent", "p_upsert", "p_link", "p_karma", "p_record"}

\* ------------------------------------------------ POST /agents/register

\* agents.ts 28-32: the body is read and a missing or empty name refused;
\* 34-37: the name is normalised and its length tested.  No statement of the
\* database has run yet.
StartRegister(s) ==
  /\ pc[s] = "idle"
  /\ \E n \in RawNames :
       LET rq == [NoReq EXCEPT !.op = "register", !.name = n] IN
       IF n = <<>> \/ ~ValidName(normalize(n)) THEN Refuse(s, rq, "InvalidName")
       ELSE Enter(s, rq, "g_existing", NoLoc)
  /\ UNCHANGED <<now, db>>

\* agents.ts 39-43: SELECT id FROM agents WHERE name = ...
RegisterExisting(s) ==
  /\ pc[s] = "g_existing"
  /\ IF names[normalize(req[s].name)] > 0 THEN Reply(s, "NameTaken")
     ELSE Goto(s, "g_insert")
  /\ UNCHANGED <<now, db>>

\* agents.ts 49-53: INSERT INTO agents ... RETURNING, under name UNIQUE
\* (db.ts 32): a row of the same name makes the statement raise, and nothing
\* in the handler catches it.
RegisterInsert(s) ==
  /\ pc[s] = "g_insert"
  /\ IF names[normalize(req[s].name)] > 0
     THEN /\ Reply(s, "Crash")
          /\ UNCHANGED names
     ELSE /\ names' = [names EXCEPT ![normalize(req[s].name)] = @ + 1]
          /\ Reply(s, "Registered")
  /\ UNCHANGED <<now, agents, follows, pinches, nextId, claws, repinches, hashtags,
                 pinch_hashtags, karma, rate_limits>>

RegisterSteps(s) == RegisterExisting(s) \/ RegisterInsert(s)

\* ------------------------------------------------------- read queries

\* The sort modes of the feeds.
Sorts == {"latest", "top", "trending"}

\* FeedRows returning every pinch.
FeedRows_all(sort) == {p \in PinchIds : Exists(p)}

\* feed.ts 48-82, GET /feed: the rows of its WHERE clause (ORDER BY, LIMIT and
\* OFFSET take a page of them).
FeedRows(sort) ==
  IF sort = "trending"
  THEN {p \in PinchIds : Exists(p) /\ pinches[p].reply_to = NULL
                           /\ pinches[p].created_at > now - Day}
  ELSE {p \in PinchIds : Exists(p) /\ pinches[p].reply_to = NULL}

\* GET /timeline without the subquery on follows.
TimelineRows_all(a) == {p \in PinchIds : Exists(p) /\ pinches[p].reply_to = NULL}

\* feed.ts 14-42, GET /timeline: pinches of the agents a follows
TimelineRows(a) ==
  {p \in PinchIds : /\ Exists(p)
                     /\ Following(a, pinches[p].author_id)
                     /\ pinches[p].reply_to = NULL}

\* search.ts 317-335, GET /pinches/:id/replies
RepliesRows(id) == {p \in PinchIds : Exists(p) /\ pinches[p].reply_to = id}

\* search.ts 156-208, GET /pinches/:id: the pinch, its replies, the quoted pinch
GetPost(id) ==
  [pinch |-> {p \in {id} : Exists(p)},
   replies |-> RepliesRows(id),
   quoted_pinch |-> {q \in PinchIds : Exists(id) /\ pinches[id].quote_of = q /\ Exists(q)}]

\* agents.ts 268-274, GET /agents/:name: recentPinches of the agent
RecentPinches(a) == {p \in PinchIds : Exists(p) /\ pinches[p].author_id = a}

\* ------------------------------------------------ POST /agents/verify

\* A property of a SELECTed row as JavaScript reads it: a column the SELECT did
\* not name is undefined.
Field(row, f) == IF f \in DOMAIN row THEN row[f] ELSE "undefined"

\* String.prototype.includes: the argument is converted to a string first, so
\* undefined searches for the text "undefined".
Includes(html, needle) == needle \in html

\* SELECT name FROM agents WHERE twitter_username = lower(username) AND id != agent
ExistingClaim(a, username) ==
  \E b \in Agents : b # a /\ agents[b].twitter_username = ToLowerCase(username)

\* UPDATE agents SET claimed = true, twitter_username = ..., claimed_at = NOW()
\* WHERE id = a
Claimed(a, username) ==
  [agents EXCEPT ![a] = [claimed |-> TRUE, twitter_username |-> ToLowerCase(username),
                         claimed_at |-> now]]

Others == <<names, follows, pinches, nextId, claws, repinches, hashtags, pinch_hashtags, karma, rate_limits>>

\* auth.ts 15-32 and agents.ts 98-125: requireAuth SELECTs id, name,
\* description, claimed, karma of the key's agent; the handler refuses a claimed
\* agent and a URL that does not match.
StartVerify(s) ==
  /\ pc[s] = "idle"
  /\ \E a \in Agents, t \in Tweets :
       LET rq == [NoReq EXCEPT !.op = "verify", !.agent = a, !.tweet = t]
           agent == [id |-> a, claimed |-> agents[a].claimed] IN
       IF agent.claimed THEN Refuse(s, rq, "AlreadyVerified")
       ELSE IF t.username = "" THEN Refuse(s, rq, "InvalidTweetUrl")
       ELSE Enter(s, rq, "v_existing", [NoLoc EXCEPT !.agent = agent])
  /\ UNCHANGED <<now, db>>

\* agents.ts 130-140: SELECT existingClaim
VerifyExisting(s) ==
  /\ pc[s] = "v_existing"
  /\ IF ExistingClaim(loc[s].agent.id, req[s].tweet.username) THEN Reply(s, "ProofConflict")
     ELSE Goto(s, "v_fetch")
  /\ UNCHANGED <<now, db>>

\* agents.ts 144-169: fetch the oEmbed html (a throw is caught at 158-160 and
\* answered); tweetHtml.includes(agent.verification_code)
VerifyFetch(s) ==
  /\ pc[s] = "v_fetch"
  /\ \E o \in FetchOutcomes :
       IF o = "throw" THEN Reply(s, "ProofUnavailable")
       ELSE IF o = "not_ok" THEN Reply(s, "FetchFailed")
       ELSE IF ~Includes(req[s].tweet.html, Field(loc[s].agent, "verification_code"))
       THEN Reply(s, "ProofInvalid")
       ELSE Goto(s, "v_update")
  /\ UNCHANGED <<now, db>>

\* agents.ts 172-190: UPDATE agents ... WHERE id = agent.id, then the response
VerifyUpdate(s) ==
  /\ pc[s] = "v_update"
  /\ agents' = Claimed(loc[s].agent.id, req[s].tweet.username)
  /\ Reply(s, "Verified")
  /\ UNCHANGED <<now, Others>>

\* ------------------------------------------------------------ POST /claim

\* index.ts 103-121: SELECT id, name, verification_code, claimed of the agent
\* that has the form's code; refuse an unknown code, a claimed agent, a URL
\* that does not match.
StartClaim(s) ==
  /\ pc[s] = "idle"
  /\ \E code \in FormCodes, t \in Tweets :
       LET found == {a \in Agents : VerificationCode(a) = code}
           a == IF found = {} THEN 0 ELSE CHOOSE x \in found : TRUE
           rq == [NoReq EXCEPT !.op = "claim", !.agent = a, !.tweet = t, !.code = code] IN
       IF found = {} THEN Refuse(s, rq, "InvalidCode")
       ELSE IF agents[a].claimed THEN Refuse(s, rq, "AlreadyVerified")
       ELSE IF t.username = "" THEN Refuse(s, rq, "InvalidTweetUrl")
       ELSE Enter(s, rq, "k_existing",
                  [NoLoc EXCEPT !.agent = [id |-> a, claimed |-> agents[a].claimed,
                                           verification_code |-> VerificationCode(a)]])
  /\ UNCHANGED <<now, db>>

\* index.ts 124-130: SELECT existingClaim
ClaimExisting(s) ==
  /\ pc[s] = "k_existing"
  /\ IF ExistingClaim(loc[s].agent.id, req[s].tweet.username) THEN Reply(s, "ProofConflict")
     ELSE Goto(s, "k_fetch")
  /\ UNCHANGED <<now, db>>

\* index.ts 132-140: fetch (no try: a throw ends in a 500);
\* data.html?.includes(agent.verification_code)
ClaimFetch(s) ==
  /\ pc[s] = "k_fetch"
  /\ \E o \in FetchOutcomes :
       IF o = "throw" THEN Reply(s, "Crash")
       ELSE IF o = "not_ok" THEN Reply(s, "FetchFailed")
       ELSE IF ~Includes(req[s].tweet.html, Field(loc[s].agent, "verification_code"))
       THEN Reply(s, "ProofInvalid")
       ELSE Goto(s, "k_update")
  /\ UNCHANGED <<now, db>>

\* ClaimUpdate flipping the claimed column.
ClaimUpdate_flip(s) ==
  /\ pc[s] = "k_update"
  /\ agents' = [Claimed(loc[s].agent.id, req[s].tweet.username)
                  EXCEPT ![loc[s].agent.id].claimed = ~agents[loc[s].agent.id].claimed]
  /\ Reply(s, "Verified")
  /\ UNCHANGED <<now, Others>>

\* index.ts 142-148: UPDATE agents ... WHERE id = agent.id, then the page
ClaimUpdate(s) ==
  /\ pc[s] = "k_update"
  /\ agents' = Claimed(loc[s].agent.id, req[s].tweet.username)
  /\ Reply(s, "Verified")
  /\ UNCHANGED <<now, Others>>

VerifySteps(s) == VerifyExisting(s) \/ VerifyFetch(s) \/ VerifyUpdate(s)
ClaimSteps(s) == ClaimExisting(s) \/ ClaimFetch(s) \/ ClaimUpdate(s)

\* ------------------------------------------------------------ environment

\* The clock moves by one of the steps, up to max.
Advance(steps, max) ==
  /\ \E d \in steps : now + d <= max /\ now' = now + d
  /\ UNCHANGED <<db, pc, req, loc, res, serial, log, trending>>

\* Time passes.
Tick == Advance(TickSteps, MaxTime)

\* Hours pass.
TickDay == Advance(DaySteps, MaxDay)

\* A day passes, once.
NextDay == Advance({Day}, Day)

\* ------------------------------------------------------- GET /trending

\* feed.ts line 88: Math.min(parseInt(limit || "10"), 30)
TrendingLimit(q) ==
  LET n == IF q = NoQuery THEN DefaultLimit ELSE q IN
  IF n < MaxLimit THEN n ELSE MaxLimit

\* COUNT(ph.pinch_id) over the join of lines 92-94: the pinch_hashtags vanish
\* from the count when their pinch was created more than 24 hours ago.
RecentCount_alltime(tag) ==
  Cardinality({l \in pinch_hashtags : l[2] = tag /\ Exists(l[1])})

\* COUNT(ph.pinch_id) over the join of lines 92-94: the pinch_hashtags rows of
\* the tag whose pinch was created within the last 24 hours.
RecentCount(tag) ==
  Cardinality({l \in pinch_hashtags :
                 l[2] = tag /\ Exists(l[1]) /\ pinches[l[1]].created_at > now - Day})

\* lines 91-95: one row per hashtag that the (inner) joins leave.
TrendingRows ==
  { [tag |-> t, recent_count |-> RecentCount(t), total_count |-> hashtags[t].pinch_count] :
      t \in {u \in TagNames : hashtags[u].live /\ RecentCount(u) > 0} }

\* line 96: ORDER BY recent_count DESC, h.pinch_count DESC
Ordered(rows) ==
  \A i, j \in DOMAIN rows :
    i < j =>
      \/ rows[i].recent_count > rows[j].recent_count
      \/ /\ rows[i].recent_count = rows[j].recent_count
         /\ rows[i].total_count >= rows[j].total_count

\* The orders in which a result set can come back.
Orders(S) ==
  {f \in [1..Cardinality(S) -> S] : \A i, j \in 1..Cardinality(S) : i # j => f[i] # f[j]}

\* lines 87-101: the handler is its one SELECT; rows that the ORDER BY leaves
\* level come in any order, LIMIT keeps the first ones.
GetTrending ==
  /\ \E q \in Limits, rows \in Orders(TrendingRows) :
       /\ Ordered(rows)
       /\ trending' = [at |-> now, limit |-> TrendingLimit(q),
                       rows |-> SubSeq(rows, 1, IF Len(rows) < TrendingLimit(q)
                                                THEN Len(rows) ELSE TrendingLimit(q))]
  /\ UNCHANGED <<now, db, pc, req, loc, res, serial, log>>
\* The statements of each handler, grouped by the path they lie on.
PinchCore(s) == PinchInsert(s) \/ PinchKarma(s) \/ PinchRecord(s)
PinchThread(s) == PinchReply(s) \/ PinchParent(s)
PinchTags(s) == PinchUpsert(s) \/ PinchLink(s)
DeleteCore(s) == DeleteTags(s) \/ DeleteDelete(s)
ClawSteps(s) ==
  \/ ClawExisting(s) \/ ClawDelete(s) \/ ClawDec(s) \/ ClawUnkarma(s)
  \/ ClawRate(s) \/ ClawInsert(s) \/ ClawInc(s) \/ ClawRecord(s) \/ ClawKarma(s)
RepinchSteps(s) ==
  \/ RepinchExisting(s) \/ RepinchDelete(s) \/ RepinchDec(s)
  \/ RepinchInsert(s) \/ RepinchInc(s) \/ RepinchKarma(s)

Refs == {NULL} \cup PinchIds
RaceIds == 1..RacePinches
Plain == {c \in Contents : c.len > 0 /\ c.len <= MaxContentLength /\ extractHashtags(c) = <<>>}

\* Requests are served concurrently: any slot may take any step of its handler.
\* One pinch, all four operations on it.
Next ==
  \E s \in Slots :
    \/ StartPinch(s, Plain, {NULL}, {NULL}, RacePinches)
    \/ StartDelete(s, RaceIds) \/ StartClaw(s, RaceIds) \/ StartRepinch(s, RaceIds)
    \/ PinchCore(s) \/ DeleteCore(s) \/ ClawSteps(s) \/ RepinchSteps(s)

Spec == Init /\ [][Next]_vars

\* Concurrent requests, claws only.
NextClaw ==
  \E s \in Slots :
    \/ StartPinch(s, Plain, {NULL}, {NULL}, RacePinches)
    \/ StartDelete(s, RaceIds) \/ StartClaw(s, RaceIds)
    \/ PinchCore(s) \/ DeleteCore(s) \/ ClawSteps(s)

SpecClaw == Init /\ [][NextClaw]_vars

\* Concurrent requests, repinches only.
NextRepinch ==
  \E s \in Slots :
    \/ StartPinch(s, Plain, {NULL}, {NULL}, RacePinches)
    \/ StartDelete(s, RaceIds) \/ StartRepinch(s, RaceIds)
    \/ PinchCore(s) \/ DeleteCore(s) \/ RepinchSteps(s)

SpecRepinch == Init /\ [][NextRepinch]_vars

\* Concurrent requests, pinches with replies and quotes.
NextReply ==
  \E s \in Slots :
    \/ StartPinch(s, Plain, Refs, Refs, MaxPinches)
    \/ StartDelete(s, PinchIds)
    \/ PinchCore(s) \/ PinchThread(s) \/ PinchQuote(s)
    \/ DeleteCore(s) \/ DeleteParent(s)

SpecReply == Init /\ [][NextReply]_vars

\* Requests are served one at a time (slot 1), claws and repinches.
NextSerial ==
  \/ StartPinch(1, Plain, {NULL}, {NULL}, MaxPinches)
  \/ StartDelete(1, PinchIds) \/ StartClaw(1, PinchIds) \/ StartRepinch(1, PinchIds)
  \/ PinchCore(1) \/ DeleteCore(1) \/ ClawSteps(1) \/ RepinchSteps(1)

SpecSerial == InitSerial /\ [][NextSerial]_vars

\* Requests are served one at a time (slot 1) while the clock runs: pinches
\* with any body, and their deletion.
NextClock ==
  \/ StartPinch(1, Contents, {NULL}, {NULL}, MaxPinches)
  \/ StartDelete(1, PinchIds)
  \/ PinchCore(1) \/ PinchTags(1) \/ DeleteCore(1) \/ DeleteTagDec(1)
  \/ Tick

SpecClock == InitSerial /\ [][NextClock]_vars

\* Concurrent requests on one pinch that carries a hashtag: it is created,
\* clawed, repinched and deleted.
OneTag == {c \in Contents : Len(c.toks) = 2 /\ Len(extractHashtags(c)) = 1}

NextCascade ==
  \E s \in Slots :
    \/ StartPinch(s, OneTag, {NULL}, {NULL}, RacePinches)
    \/ StartDelete(s, RaceIds) \/ StartClaw(s, RaceIds) \/ StartRepinch(s, RaceIds)
    \/ PinchCore(s) \/ PinchTags(s) \/ DeleteCore(s) \/ DeleteTagDec(s)
    \/ ClawSteps(s) \/ RepinchSteps(s)

SpecCascade == Init /\ [][NextCascade]_vars

\* Concurrent verifications through both routes, and the clock.
NextVerify ==
  \/ \E s \in Slots :
       \/ StartVerify(s) \/ VerifySteps(s)
       \/ StartClaim(s) \/ ClaimSteps(s)
  \/ NextDay

SpecVerify == Init /\ [][NextVerify]_vars

\* Verification through /claim next to pinch requests.
NextGate ==
  \E s \in Slots :
    \/ StartClaim(s) \/ ClaimSteps(s)
    \/ StartPinch(s, Plain, {NULL}, {NULL}, RacePinches) \/ PinchCore(s)

SpecGate == Init /\ [][NextGate]_vars

\* One agent sends request after request within one hour, up to its limits:
\* claws, repinches, follows and their removals on a pinch of either agent.
One == {1}

NextLimit ==
  \/ StartPinch(1, Plain, {NULL}, {NULL}, RacePinches) \/ PinchCore(1)
  \/ ClawArrives(1, One, RaceIds, ClawLimit) \/ ClawSteps(1)
  \/ RepinchArrives(1, One, RaceIds) \/ RepinchSteps(1)
  \/ FollowArrives(1, One, FollowLimit) \/ FollowSteps(1)
  \/ UnfollowArrives(1, One) \/ UnfollowDelete(1)

SpecLimit == Init /\ [][NextLimit]_vars

\* Pinches, replies, quotes, deletions and follows, one request at a time,
\* over a day: the states the read queries are asked in.
NextFeed ==
  \/ StartPinch(1, Plain, Refs, Refs, MaxPinches)
  \/ PinchCore(1) \/ PinchThread(1) \/ PinchQuote(1)
  \/ StartDelete(1, PinchIds) \/ DeleteCore(1) \/ DeleteParent(1)
  \/ StartFollow(1) \/ FollowSteps(1)
  \/ StartUnfollow(1) \/ UnfollowDelete(1)
  \/ NextDay

SpecFeed == Init /\ [][NextFeed]_vars

\* Follows and unfollows of every agent, interleaved.
NextFollow ==
  \E s \in Slots :
    \/ StartFollow(s) \/ FollowSteps(s)
    \/ StartUnfollow(s) \/ UnfollowDelete(s)

SpecFollow == Init /\ [][NextFollow]_vars

\* Concurrent pinches with hashtags and replies; a statement may fail.
NextPinch ==
  \E s \in Slots :
    \/ StartPinch(s, Plain \cup OneTag, Refs, {NULL}, MaxPinches)
    \/ PinchCore(s) \/ PinchThread(s) \/ PinchTags(s)
    \/ Fails(s, AfterInsert)

SpecPinch == Init /\ [][NextPinch]_vars

\* The statements of the toggles the model lets fail: the counter update
\* after a claw or repinch row was inserted, and the karma updates.
ToggleFailures == {"c_inc", "c_karma", "c_unkarma", "r_inc", "r_karma"}

\* One pinch; claws and repinches of it, one request at a time; a statement
\* of a toggle may fail.
NextToggle ==
  \/ StartPinch(1, Plain, {NULL}, {NULL}, RacePinches) \/ PinchCore(1)
  \/ StartClaw(1, RaceIds) \/ ClawSteps(1)
  \/ StartRepinch(1, RaceIds) \/ RepinchSteps(1)
  \/ Fails(1, ToggleFailures)

SpecToggle == InitSerial /\ [][NextToggle]_vars

\* The rate-limited actions, one request at a time: pinches, claws of them
\* and follows; the karma update of a pinch or claw may fail.
NextRecord ==
  \/ StartPinch(1, Plain, {NULL}, {NULL}, RacePinches) \/ PinchCore(1)
  \/ StartClaw(1, RaceIds) \/ ClawSteps(1)
  \/ StartFollow(1) \/ FollowSteps(1)
  \/ Fails(1, {"p_karma", "c_karma"})

SpecRecord == Init /\ [][NextRecord]_vars

\* Every write request, one at a time: pinches with hashtags and replies,
\* their deletion, claws and repinches.
NextCounters ==
  \/ StartPinch(1, Plain \cup OneTag, Refs, {NULL}, MaxPinches)
  \/ PinchCore(1) \/ PinchThread(1) \/ PinchTags(1)
  \/ StartDelete(1, PinchIds) \/ DeleteCore(1) \/ DeleteParent(1) \/ DeleteTagDec(1)
  \/ StartClaw(1, PinchIds) \/ ClawSteps(1)
  \/ StartRepinch(1, PinchIds) \/ RepinchSteps(1)

SpecCounters == Init /\ [][NextCounters]_vars

\* One pinch; claws and repinches of it and their removals, one request at a
\* time, until the author's karma reaches KarmaCap.
NextKarma ==
  \/ StartPinch(1, Plain, {NULL}, {NULL}, RacePinches) \/ PinchCore(1)
  \/ StartClaw(1, RaceIds) \/ ClawSteps(1)
  \/ RepinchCapped(1, Agents, RaceIds, KarmaCap, TRUE) \/ RepinchSteps(1)

SpecKarma == Init /\ [][NextKarma]_vars

\* Registrations, interleaved.
NextRegister == \E s \in Slots : StartRegister(s) \/ RegisterSteps(s)

SpecRegister == Init /\ [][NextRegister]_vars

\* Requests are served one at a time (slot 1) over days: pinches with
\* hashtags, their deletion, and the trending query.
NextTrend ==
  \/ StartPinch(1, TrendContents, {NULL}, {NULL}, MaxPinches)
  \/ StartDelete(1, PinchIds)
  \/ PinchCore(1) \/ PinchTags(1) \/ DeleteCore(1) \/ DeleteTagDec(1)
  \/ TickDay \/ GetTrending

SpecTrend == Init /\ [][NextTrend]_vars

\* ------------------------------------------------------------------ claims

\* No request is being served.
Quiet == \A s \in Slots : pc[s] = "idle"

\* C1: each existing pinch's claws_count equals the number of claws rows that
\* reference the pinch; stated for the reachable states in which every
\* request has been answered, where the claim asks the least.
ClawsCountMatches ==
  Quiet =>
    \A id \in PinchIds :
      Exists(id) => pinches[id].claws_count = Cardinality({c \in claws : c[2] = id})

\* C2: each existing pinch's repinch_count equals the number of repinches rows
\* that reference the pinch; stated for the reachable states in which every
\* request has been answered, where the claim asks the least.
RepinchCountMatches ==
  Quiet =>
    \A id \in PinchIds :
      Exists(id) =>
        pinches[id].repinch_count = Cardinality({c \in repinches : c[2] = id})

\* C3: each existing pinch's reply_count equals the number of existing pinches
\* whose reply_to references it; stated for the reachable states in which
\* every request has been answered, where the claim asks the least.
ReplyCountMatches ==
  Quiet =>
    \A id \in PinchIds :
      Exists(id) =>
        pinches[id].reply_count
          = Cardinality({r \in PinchIds : Exists(r) /\ pinches[r].reply_to = id})

\* C4: of concurrent toggles of one agent on one pinch at most one takes
\* effect: a handler that goes on to decrement the pinch's counter and the
\* author's karma is one whose DELETE removed the relation row.
ToggleAppliesOnce ==
  \A s \in Slots :
    pc[s] \in {"c_dec", "c_unkarma", "r_dec"} => loc[s].rows = 1

\* C5: in every reachable state every agent's karma is >= 0.
KarmaNonNegative == \A a \in Agents : karma[a] >= 0

\* An unclaw by another agent has been answered and the author of the pinch,
\* whose own +1 for pinching has been applied, has karma 0.
KarmaFloorReached ==
  \E s \in Slots :
    /\ pc[s] = "idle" /\ res[s] = "Unclawed"
    /\ Exists(req[s].id)
    /\ pinches[req[s].id].author_id # req[s].agent
    /\ rate_limits[<<pinches[req[s].id].author_id, "pinch">>] # <<>>
    /\ karma[pinches[req[s].id].author_id] = 0

\* The last two requests served are claws by one agent on one pinch that
\* existed and was not clawed by the agent when the first arrived, the first
\* was not rate-limited and the second has been answered.
TwoClaws ==
  /\ Len(log) = 2
  /\ log[1].req.op = "claw" /\ log[2].req.op = "claw"
  /\ log[1].req.agent = log[2].req.agent
  /\ log[1].req.id = log[2].req.id
  /\ log[1].pre.exists /\ ~log[1].pre.related
  /\ log[1].res # "RateLimited"
  /\ log[2].res # "none"

\* C6: two claw requests in sequence by an agent on a pinch it had not clawed
\* answer clawed then unclawed, and afterwards the claws row is absent and
\* claws_count has its value from before the first request.
ToggleTwiceRestores ==
  TwoClaws =>
    /\ log[1].res = "Clawed"
    /\ log[2].res = "Unclawed"
    /\ <<log[1].req.agent, log[1].req.id>> \notin claws
    /\ pinches[log[1].req.id].claws_count = log[1].pre.count

\* Two claws in sequence have been answered on a pinch that other agents'
\* claws keep at a positive count.
ToggledTwice == TwoClaws /\ log[2].res = "Unclawed" /\ log[1].pre.count > 0

\* The last two requests served are a claw and an unclaw by an agent that is
\* not the author of the pinch.
ClawThenUnclaw ==
  /\ Len(log) = 2
  /\ log[1].req.op = "claw" /\ log[2].req.op = "claw"
  /\ log[1].req.agent = log[2].req.agent
  /\ log[1].req.id = log[2].req.id
  /\ log[1].pre.exists
  /\ log[1].pre.author # log[1].req.agent
  /\ log[1].res = "Clawed" /\ log[2].res = "Unclawed"

\* C7: when an agent that is not the author claws a pinch and then unclaws it,
\* nothing in between, the author's karma after the unclaw equals the
\* author's karma before the claw.
UnclawRestoresKarma ==
  ClawThenUnclaw => karma[log[1].pre.author] = log[1].pre.karma

\* A claw and its unclaw by another agent have been answered.
UnclawedByOther == ClawThenUnclaw /\ log[1].pre.karma > 0

\* C8: no agent has two pinches whose creation times are less than five
\* minutes apart.
PinchesFiveMinutesApart ==
  \A i, j \in PinchIds :
    (i # j /\ Exists(i) /\ Exists(j) /\ pinches[i].author_id = pinches[j].author_id
       /\ pinches[i].created_at <= pinches[j].created_at)
      => pinches[j].created_at - pinches[i].created_at >= PinchWindow

\* The last request served is a pinch with a valid body that arrived five
\* minutes and a second, or more, after the agent's latest pinch was recorded.
PinchAfterWindow ==
  /\ log # <<>>
  /\ log[Len(log)].req.op = "pinch"
  /\ log[Len(log)].req.content.len > 0
  /\ log[Len(log)].req.content.len <= MaxContentLength
  /\ log[Len(log)].pre.last >= 0
  /\ log[Len(log)].t >= log[Len(log)].pre.last + PinchWindow + 1

\* C9: a pinch request made five minutes and one second or more after the
\* agent's most recent successful pinch is not rejected by the rate limiter.
PinchAllowedAfterWindow ==
  PinchAfterWindow => log[Len(log)].res # "RateLimited"

\* An agent has pinched again once the window had passed.
PinchedAgain == PinchAfterWindow /\ log[Len(log)].res = "Created"

\* C10: of two concurrent pinch requests of one agent that both pass the rate
\* limiter before either records its event, at most one creates a pinch.
OnePinchPerRace ==
  \A s, t \in Slots :
    (s # t /\ req[s].agent = req[t].agent /\ pc[s] \in AfterInsert)
      => pc[t] \notin AfterInsert

\* The body "hello #AI #ai #AI".
Repeated ==
  [len |-> 17, toks |-> << Tok(FALSE, "hello"), Tok(TRUE, "AI"), Tok(TRUE, "ai"),
                           Tok(TRUE, "AI") >>]

\* The last request served is a pinch with the body Repeated, answered 201.
RepeatedPinched ==
  /\ log # <<>>
  /\ log[Len(log)].req.op = "pinch"
  /\ log[Len(log)].req.content = Repeated
  /\ log[Len(log)].res = "Created"

\* C11: a pinch that mentions one hashtag several times in mixed case leaves
\* exactly one hashtags row for the lowercased tag, with pinch_count one more
\* than before, and exactly one pinch_hashtags row for the pinch.
HashtagCountedOnce ==
  RepeatedPinched =>
    LET e == log[Len(log)] IN
    /\ {t \in TagNames : hashtags[t].live /\ ToLowerCase(t) = "ai"} = {"ai"}
    /\ hashtags["ai"].pinch_count = e.pre.tags["ai"].pinch_count + 1
    /\ {l \in pinch_hashtags : l[1] = e.pre.nextId} = {<<e.pre.nextId, "ai">>}

\* The repeated tag has been counted for a tag that was in use already.
RepeatedCounted ==
  RepeatedPinched /\ log[Len(log)].pre.tags["ai"].pinch_count > 0

\* Pinches linked to a tag, and those of them created within the last 24 hours.
Tagged(tag) == {p \in PinchIds : Exists(p) /\ <<p, tag>> \in pinch_hashtags}
TaggedToday(tag) == {p \in Tagged(tag) : now - pinches[p].created_at < Day}

\* What C12 asks of a response to a query made in the current state.
TrendingAnswer(r) ==
  /\ \A i \in DOMAIN r.rows :
        /\ r.rows[i].recent_count = Cardinality(TaggedToday(r.rows[i].tag))
        /\ r.rows[i].recent_count > 0
        /\ r.rows[i].total_count = hashtags[r.rows[i].tag].pinch_count
  /\ \A i, j \in DOMAIN r.rows :
        i < j =>
          /\ r.rows[i].tag # r.rows[j].tag
          /\ r.rows[i].recent_count >= r.rows[j].recent_count
          /\ r.rows[i].recent_count = r.rows[j].recent_count
               => r.rows[i].total_count >= r.rows[j].total_count
  /\ \A t \in TagNames :
        (TaggedToday(t) # {} /\ \A i \in DOMAIN r.rows : r.rows[i].tag # t)
          => /\ Len(r.rows) = r.limit
             /\ \A i \in DOMAIN r.rows :
                   r.rows[i].recent_count >= Cardinality(TaggedToday(t))

\* C12: every response of the trending query counts for each tag only the
\* linked pinches created within the trailing 24 hours, returns no tag whose
\* pinches are all older, and is ordered by that count descending, ties by
\* pinch_count descending.
TrendingWindowed == [][trending' # trending => TrendingAnswer(trending')]_vars

\* A response made now lists a tag and leaves out another tag that is still
\* linked to a pinch, all of whose pinches are older than 24 hours.
TrendingExcludesOld ==
  /\ trending.at = now
  /\ trending.rows # <<>>
  /\ \E t \in TagNames :
        /\ Tagged(t) # {} /\ TaggedToday(t) = {}
        /\ hashtags[t].pinch_count >= trending.rows[1].total_count
        /\ \A i \in DOMAIN trending.rows : trending.rows[i].tag # t

\* C13: every claws, repinches and pinch_hashtags row references a pinch that
\* exists, and the pinch of a delete request answered "Deleted" is gone.
RelationsReferencePinch ==
  /\ \A c \in claws : Exists(c[2])
  /\ \A c \in repinches : Exists(c[2])
  /\ \A l \in pinch_hashtags : Exists(l[1])
  /\ \A s \in Slots :
        (pc[s] = "idle" /\ req[s].op = "delete" /\ res[s] = "Deleted") => ~Exists(req[s].id)

\* A tagged pinch was deleted right after a claw on it had inserted its row:
\* the claw is still running, its row and the link went with the pinch.
CascadeRemoved ==
  \E s, t \in Slots :
    /\ pc[s] = "idle" /\ req[s].op = "delete" /\ res[s] = "Deleted"
    /\ pc[t] = "c_inc" /\ req[t].id = req[s].id
    /\ hashtags["ai"].live
    /\ claws = {} /\ pinch_hashtags = {}

\* The statements of the delete handler after its SELECT.
Deleting == {"d_parent", "d_tags", "d_tagdec", "d_delete"}

\* The step in which slot s takes a delete request.
DeleteArrives(s) ==
  /\ pc[s] = "idle"
  /\ req'[s].op = "delete"
  /\ pc'[s] \in Deleting \/ (pc'[s] = "idle" /\ <<req'[s], res'[s]>> # <<req[s], res[s]>>)

\* C14: a delete request for a missing pinch is answered NotFound, one by an
\* agent other than the author NotOwner, and neither changes any table; the
\* handler goes on to its writes only for the author, and a pinch disappears
\* only by the DELETE of a request of its author.
DeleteOnlyByAuthor ==
  [][ /\ \A s \in Slots :
           DeleteArrives(s) =>
             LET id == req'[s].id IN
             /\ ~Exists(id) => (pc'[s] = "idle" /\ res'[s] = "NotFound")
             /\ (Exists(id) /\ pinches[id].author_id # req'[s].agent)
                  => (pc'[s] = "idle" /\ res'[s] = "NotOwner")
             /\ (Exists(id) /\ pinches[id].author_id = req'[s].agent) => pc'[s] \in Deleting
             /\ db' = db
      /\ \A id \in PinchIds :
           (pinches[id].live /\ ~pinches'[id].live) =>
             \E s \in Slots : /\ pc[s] = "d_delete" /\ pc'[s] = "idle"
                               /\ req[s].id = id /\ req[s].agent = pinches[id].author_id
    ]_vars

\* A delete by another agent was answered NotOwner; the pinch is there with
\* its claw, its repinch and its hashtag link.
DeleteRefused ==
  \E s \in Slots :
    /\ pc[s] = "idle" /\ req[s].op = "delete" /\ res[s] = "NotOwner"
    /\ Exists(req[s].id) /\ pinches[req[s].id].author_id # req[s].agent
    /\ \E c \in claws : c[2] = req[s].id
    /\ \E c \in repinches : c[2] = req[s].id
    /\ \E l \in pinch_hashtags : l[1] = req[s].id

\* C15: no two distinct agents are bound to the same Twitter username.
OneAgentPerUsername ==
  \A a, b \in Agents :
    (a # b /\ agents[a].claimed /\ agents[b].claimed)
      => agents[a].twitter_username # agents[b].twitter_username

\* C16: an agent that is claimed stays claimed in every later state.
VerifiedStays == [][\A a \in Agents : agents[a].claimed => agents'[a].claimed]_vars

\* A verification request for a claimed agent has been refused.
VerifiedAgain ==
  \E s \in Slots :
    /\ pc[s] = "idle" /\ req[s].op \in {"verify", "claim"} /\ res[s] = "AlreadyVerified"
    /\ req[s].agent \in Agents /\ agents[req[s].agent].claimed

\* The step in which slot s takes a request of kind op.
Arrives(s, op) ==
  /\ pc[s] = "idle"
  /\ req'[s].op = op
  /\ pc'[s] # "idle" \/ <<req'[s], res'[s]>> # <<req[s], res[s]>>

\* C17: a verification request for a claimed agent is answered AlreadyVerified
\* and changes nothing, and the row of a claimed agent (twitter_username,
\* claimed_at) is never written again.
VerifiedOnce ==
  [][ /\ \A a \in Agents : agents[a].claimed => agents'[a] = agents[a]
      /\ \A s \in Slots :
           ((Arrives(s, "verify") \/ Arrives(s, "claim"))
              /\ req'[s].agent \in Agents /\ agents[req'[s].agent].claimed)
             => (pc'[s] = "idle" /\ res'[s] = "AlreadyVerified" /\ db' = db)
    ]_vars

\* C18: an agent becomes claimed only by the UPDATE of a request whose fetched
\* tweet contains the verification code issued to that agent, and a request
\* whose fetched tweet lacks it is answered ProofInvalid.
VerifiedByOwnCode ==
  [][ /\ \A a \in Agents :
           (~agents[a].claimed /\ agents'[a].claimed) =>
             \E s \in Slots :
               /\ pc[s] \in {"v_update", "k_update"} /\ pc'[s] = "idle"
               /\ req[s].agent = a
               /\ VerificationCode(a) \in req[s].tweet.html
      /\ \A s \in Slots :
           (pc[s] \in {"v_fetch", "k_fetch"} /\ pc'[s] = "idle" /\ res'[s] = "ProofInvalid")
             => VerificationCode(req[s].agent) \notin req[s].tweet.html
    ]_vars

\* C19: a pinch request of an agent that is not claimed is refused and changes
\* no table.
VerifiedToPinch ==
  [][ \A s \in Slots :
        (Arrives(s, "pinch") /\ ~agents[req'[s].agent].claimed)
          => (pc'[s] = "idle" /\ res'[s] = "Unverified" /\ db' = db)
    ]_vars

\* The last request served is a repinch toggle on a pinch of another agent.
RepinchOfOther ==
  /\ log # <<>>
  /\ log[Len(log)].req.op = "repinch"
  /\ log[Len(log)].pre.exists
  /\ log[Len(log)].pre.author # log[Len(log)].req.agent
  /\ log[Len(log)].res \in {"Repinched", "Unrepinched"}

\* C20: a repinch toggle by an agent other than the author adds exactly 2 to
\* the author's karma, and to no other, when it creates the repinch; when it
\* removes the repinch it leaves every karma as it was and takes one from
\* repinch_count.
RepinchKarmaEffect ==
  RepinchOfOther =>
    LET e == log[Len(log)] IN
    IF e.res = "Repinched"
    THEN /\ ~e.pre.related /\ <<e.req.agent, e.req.id>> \in repinches
         /\ karma = [e.pre.karmas EXCEPT ![e.pre.author] = @ + 2]
         /\ pinches[e.req.id].repinch_count = e.pre.count + 1
    ELSE /\ e.pre.related /\ <<e.req.agent, e.req.id>> \notin repinches
         /\ karma = e.pre.karmas
         /\ pinches[e.req.id].repinch_count = GREATEST(e.pre.count - 1, 0)

\* Another agent's repinch (+2 to the author) and its removal have both been
\* answered, one after the other.
RepinchedAndBack ==
  /\ RepinchOfOther /\ Len(log) = 2
  /\ log[2].res = "Unrepinched" /\ log[1].res = "Repinched"
  /\ log[1].req = log[2].req
  /\ karma[log[2].pre.author] = log[1].pre.karma + 2

\* The last request served is a claw or repinch toggle by the author of the
\* pinch, answered with success.
ToggleOfOwn ==
  /\ log # <<>>
  /\ log[Len(log)].req.op \in {"claw", "repinch"}
  /\ log[Len(log)].pre.exists
  /\ log[Len(log)].pre.author = log[Len(log)].req.agent
  /\ log[Len(log)].res # "none"

\* C21: a claw or repinch toggle by the author of the pinch is answered with
\* success (the only refusal is the claw rate limit), flips the relation row,
\* moves the pinch's counter by one and leaves every agent's karma unchanged.
SelfToggleNoKarma ==
  ToggleOfOwn =>
    LET e == log[Len(log)]
        row == <<e.req.agent, e.req.id>>
        rel == IF e.req.op = "claw" THEN claws ELSE repinches
        cnt == IF e.req.op = "claw" THEN pinches[e.req.id].claws_count
               ELSE pinches[e.req.id].repinch_count IN
    /\ karma = e.pre.karmas
    /\ e.res \in {"Clawed", "Unclawed", "Repinched", "Unrepinched", "RateLimited"}
    /\ e.res = "RateLimited" => (e.req.op = "claw" /\ ~e.pre.related)
    /\ e.res \in {"Clawed", "Repinched"}
         => (~e.pre.related /\ row \in rel /\ cnt = e.pre.count + 1)
    /\ e.res \in {"Unclawed", "Unrepinched"}
         => (e.pre.related /\ row \notin rel /\ cnt = GREATEST(e.pre.count - 1, 0))

\* The author has repinched its own pinch and taken the repinch back.
SelfToggled ==
  /\ ToggleOfOwn /\ Len(log) = 2
  /\ log[1].req = log[2].req
  /\ log[1].res = "Repinched" /\ log[2].res = "Unrepinched"
  /\ log[1].pre.karma > 0

\* The statements of the removal branches and of the unfollow handler.
Removing == {"c_delete", "c_dec", "c_unkarma", "r_delete", "r_dec", "u_delete"}

\* C22: a claw toggle that finds its row, a repinch toggle that finds its row
\* and an unfollow go on to the removal without consulting the rate limiter,
\* are never answered RateLimited and record no rate-limit event.
RemovalNeverLimited ==
  [][ \A s \in Slots :
        /\ (pc[s] = "c_existing" /\ pc'[s] # pc[s] /\ <<req[s].agent, req[s].id>> \in claws)
             => pc'[s] = "c_delete"
        /\ (pc[s] = "r_existing" /\ pc'[s] # pc[s]
               /\ <<req[s].agent, req[s].id>> \in repinches)
             => pc'[s] = "r_delete"
        /\ (pc[s] = "idle" /\ req'[s].op = "unfollow" /\ req'[s].target \in Agents
               /\ <<req'[s], res'[s]>> # <<req[s], res[s]>>)
             => pc'[s] = "u_delete"
        /\ (pc[s] \in Removing /\ pc'[s] # pc[s])
             => /\ rate_limits' = rate_limits
                /\ pc'[s] \in Removing \cup {"idle"}
                /\ pc'[s] = "idle" => res'[s] \in {"Unclawed", "Unrepinched", "Unfollowed"}
    ]_vars

\* An agent whose claw and follow limits are both used up has had a claw
\* removed.
RemovedWhenExhausted ==
  \E s \in Slots :
    /\ pc[s] = "idle" /\ req[s].op = "claw" /\ res[s] = "Unclawed"
    /\ checkRateLimit(req[s].agent, "claw")
    /\ checkRateLimit(req[s].agent, "follow")
    /\ <<req[s].agent, req[s].id>> \notin claws

\* Pinches that are replies.
Replies == {p \in PinchIds : Exists(p) /\ pinches[p].reply_to # NULL}

FollowEdgesUnique ==
  /\ \A a \in Agents : follows[<<a, a>>] = 0
  /\ \A e \in Agents \X Agents : follows[e] <= 1
  /\ \A s \in Slots :
        (req[s].op = "follow" /\ req[s].target = req[s].agent)
          => res[s] \in {"none", "SelfReference", "RateLimited"}

\* A follow of an agent that is already followed has run its insert, which
\* inserted nothing, and a follow of oneself has been refused.
FollowedTwice ==
  \E s, t \in Slots :
    /\ pc[s] = "f_record" /\ loc[s].rows = 0
    /\ follows[<<req[s].agent, req[s].target>>] = 1
    /\ req[t].op = "follow" /\ req[t].target = req[t].agent
    /\ res[t] = "SelfReference"

\* ---------------------------------------------------------------- C25

\* The step in which slot s answers a request of kind op.
Answers(s, op) ==
  /\ req'[s].op = op /\ res'[s] # "none"
  /\ pc[s] # "idle" \/ <<req'[s], res'[s]>> # <<req[s], res[s]>>

\* C25: a registration whose normalised name is shorter than 2 or longer than
\* 32 characters is answered InvalidName, one whose normalised name is held by
\* an agent when it is answered is answered NameTaken, and both create no
\* agent; any other registration creates the one agent of its name; no name
\* is ever held by two agents.
NamesUnique ==
  [][ /\ \A n \in NormalNames : names'[n] <= 1
      /\ \A s \in Slots :
            Answers(s, "register") =>
              LET n == normalize(req'[s].name) IN
              IF ~ValidName(n) THEN res'[s] = "InvalidName" /\ names' = names
              ELSE IF names[n] > 0 THEN res'[s] = "NameTaken" /\ names' = names
              ELSE res'[s] = "Registered" /\ names' = [names EXCEPT ![n] = 1] ]_vars

\* ---------------------------------------------------------------- C26

\* C26: no request ends as an unhandled failure: every answer is a success
\* or one of the named error kinds.
EveryAnswerTyped == \A s \in Slots : res[s] # "Crash"

\* ---------------------------------------------------------------- C27

\* A reference of pinch i to a pinch that is not there.
Dangling(P, i) ==
  \/ P[i].reply_to # NULL /\ ~P[P[i].reply_to].live
  \/ P[i].quote_of # NULL /\ ~P[P[i].quote_of].live

\* C27: a step that deletes a pinch deletes no other pinch, and leaves every
\* pinch that replied to it or quoted it in place with that reference
\* cleared; no pinch ever refers, by reply_to or quote_of, to a pinch that
\* does not exist.
DeleteClearsReferences ==
  [][ /\ \A id \in PinchIds :
           (pinches[id].live /\ ~pinches'[id].live) =>
             \A j \in PinchIds \ {id} :
               pinches[j].live =>
                 /\ pinches'[j].live
                 /\ pinches[j].reply_to = id => pinches'[j].reply_to = NULL
                 /\ pinches[j].quote_of = id => pinches'[j].quote_of = NULL
      /\ \A i \in PinchIds : pinches'[i].live => ~Dangling(pinches', i)
    ]_vars

\* Pinch 1 has been deleted after pinch 2 replied to it and quoted it; pinch 2
\* is there, its references cleared.
ReplySurvivedDelete ==
  \E s, t \in Slots :
    /\ req[s].op = "delete" /\ req[s].id = 1 /\ res[s] = "Deleted"
    /\ req[t].op = "pinch" /\ req[t].reply_to = 1 /\ req[t].quote_of = 1
    /\ res[t] = "Created"
    /\ ~pinches[1].live /\ pinches[2].live
    /\ pinches[2].reply_to = NULL /\ pinches[2].quote_of = NULL

\* ---------------------------------------------------------------- C28

\* The pinches of agent a.
PinchesOf(a) == {p \in PinchIds : Exists(p) /\ pinches[p].author_id = a}

\* C28: where pinches are only created, every state holds each pinch with
\* all of its side effects or not at all: an agent's karma and its recorded
\* pinch events both count its pinches, a pinch's reply_count counts its
\* replies, and a hashtag's pinch_count counts its links.
PinchAllOrNothing ==
  /\ \A a \in Agents :
        /\ karma[a] = Cardinality(PinchesOf(a))
        /\ Len(rate_limits[<<a, "pinch">>]) = Cardinality(PinchesOf(a))
  /\ \A p \in PinchIds :
        Exists(p) =>
          pinches[p].reply_count
            = Cardinality({r \in PinchIds : Exists(r) /\ pinches[r].reply_to = p})
  /\ \A t \in TagNames :
        hashtags[t].pinch_count = Cardinality({l \in pinch_hashtags : l[2] = t})

\* ---------------------------------------------------------------- C29

\* C29: while a claw or repinch toggle runs and after it has ended, in
\* success or in failure, the relation row, the pinch's counter and the
\* author's karma have all changed or are all as the request found them: with
\* the row created the counter is one higher and the author's karma 1 (claw)
\* or 2 (repinch) higher when another agent toggled; with the row removed the
\* counter is one lower and the author's karma 1 lower for another agent's
\* claw.
ToggleOneUnit ==
  (/\ log # <<>>
   /\ log[Len(log)].req.op \in {"claw", "repinch"}
   /\ log[Len(log)].pre.exists) =>
    LET e == log[Len(log)]
        claw == e.req.op = "claw"
        other == e.pre.author # e.req.agent
        related == <<e.req.agent, e.req.id>> \in (IF claw THEN claws ELSE repinches)
        cnt == IF claw THEN pinches[e.req.id].claws_count
               ELSE pinches[e.req.id].repinch_count
        gain == IF ~other THEN 0 ELSE IF claw THEN 1 ELSE 2 IN
    IF related = e.pre.related
    THEN cnt = e.pre.count /\ karma = e.pre.karmas
    ELSE IF related
    THEN /\ cnt = e.pre.count + 1
         /\ karma = [e.pre.karmas EXCEPT ![e.pre.author] = @ + gain]
    ELSE /\ cnt = GREATEST(e.pre.count - 1, 0)
         /\ karma = [e.pre.karmas EXCEPT ![e.pre.author] =
                       IF other /\ claw THEN GREATEST(@ - 1, 0) ELSE @]

\* ---------------------------------------------------------------- C30

\* The statements that call recordRateLimit.
Recording == {"p_record", "c_record", "f_record"}

\* C30: the statement that records a rate-limit event is the last statement
\* of its handler: with it the request is answered with success, so no
\* statement that could fail follows the record.
RecordedLast ==
  [][ \A s \in Slots :
        (pc[s] \in Recording /\ pc'[s] # pc[s] /\ rate_limits' # rate_limits)
          => (pc'[s] = "idle" /\ res'[s] \in {"Created", "Clawed", "Followed"}) ]_vars

\* ---------------------------------------------------------------- C31

\* C31: a claw toggle that finds no row of its own makes no write before it
\* consults the rate limiter; when the limiter denies it the request is
\* answered RateLimited and no table has changed: no claws row, claws_count,
\* karma and the recorded events as they were.
LimitedClawChangesNothing ==
  [][ \A s \in Slots :
        /\ (pc[s] = "c_existing" /\ pc'[s] # pc[s]
               /\ <<req[s].agent, req[s].id>> \notin claws)
             => (pc'[s] = "c_rate" /\ db' = db)
        /\ (pc[s] = "c_rate" /\ pc'[s] # pc[s] /\ checkRateLimit(req[s].agent, "claw"))
             => (pc'[s] = "idle" /\ res'[s] = "RateLimited" /\ db' = db)
        /\ (pc[s] # "idle" /\ req[s].op = "claw" /\ res'[s] = "RateLimited")
             => pc[s] = "c_rate"
    ]_vars

\* A claw that would have created the row has been denied: the agent has
\* used up its claws of the hour and holds no claw on the pinch.
ClawDenied ==
  \E s \in Slots :
    /\ pc[s] = "idle" /\ req[s].op = "claw" /\ res[s] = "RateLimited"
    /\ Len(rate_limits[<<req[s].agent, "claw">>]) = ClawLimit
    /\ <<req[s].agent, req[s].id>> \notin claws
    /\ Exists(req[s].id)

\* ---------------------------------------------------------------- C32

\* The pinch_hashtags rows of tag t.
Links(t) == {l \in pinch_hashtags : l[2] = t}

\* C32: each hashtag's pinch_count is the number of pinch_hashtags rows of
\* the tag; stated for the states in which no request is in progress, the
\* weakest reading of "every reachable state".
HashtagCountIsLinks ==
  Quiet => \A t \in TagNames : hashtags[t].pinch_count = Cardinality(Links(t))

\* ---------------------------------------------------------------- C33

\* C33: a pinch request with valid content whose reply_to names no pinch, or
\* whose reply_to is fine and whose quote_of names no pinch, is not answered
\* RateLimited: the targets are looked up before the rate limiter is asked.
TargetsBeforeLimiter ==
  [][ \A s \in Slots :
        (/\ Arrives(s, "pinch")
         /\ req'[s].content.len > 0 /\ req'[s].content.len <= MaxContentLength
         /\ \/ req'[s].reply_to # NULL /\ ~Exists(req'[s].reply_to)
            \/ /\ req'[s].reply_to = NULL \/ Exists(req'[s].reply_to)
               /\ req'[s].quote_of # NULL /\ ~Exists(req'[s].quote_of))
          => res'[s] # "RateLimited" ]_vars

\* ---------------------------------------------------------------- C34

\* C34: with requests served one at a time, after every request each
\* pinch's claws_count, repinch_count and reply_count are the numbers of
\* claws rows, repinches rows and replies of the pinch, and each hashtag's
\* pinch_count is the number of its pinch_hashtags rows.
SerialCountersDerived ==
  Quiet =>
    /\ \A p \in PinchIds :
          Exists(p) =>
            /\ pinches[p].claws_count = Cardinality({c \in claws : c[2] = p})
            /\ pinches[p].repinch_count = Cardinality({c \in repinches : c[2] = p})
            /\ pinches[p].reply_count
                 = Cardinality({r \in PinchIds : Exists(r) /\ pinches[r].reply_to = p})
    /\ \A t \in TagNames : hashtags[t].pinch_count = Cardinality(Links(t))

\* A pinch with a hashtag holds a claw, a repinch and a reply, all counted.
AllCounted ==
  /\ Quiet
  /\ \E p \in PinchIds, t \in TagNames :
       /\ Exists(p) /\ <<p, t>> \in pinch_hashtags
       /\ pinches[p].claws_count = 1 /\ pinches[p].repinch_count = 1
       /\ pinches[p].reply_count = 1 /\ hashtags[t].pinch_count = 1

\* ---------------------------------------------------------------- C35

\* C35: where no pinch is deleted, an author's karma is at most 1 for each
\* of its pinches plus 3 (a claw and a repinch) for each pinch and other
\* agent, however often the other agents toggle.
EngagementKarmaBounded ==
  \A a \in Agents :
    karma[a] <= Cardinality(PinchesOf(a)) * (1 + 3 * (NumAgents - 1))

\* ---------------------------------------------------------------- C36

\* C36: no step of a delete request changes any agent's karma: taking the
\* request, the counter updates and the DELETE all leave karma as it was.
DeleteKeepsKarma ==
  [][ \A s \in Slots :
        (DeleteArrives(s) \/ (pc[s] \in Deleting /\ pc'[s] # pc[s])) => karma' = karma
    ]_vars

\* An author has deleted its pinch and still holds the karma of the pinch
\* and of another agent's claw on it.
KarmaOutlivesPinch ==
  \E s \in Slots :
    /\ pc[s] = "idle" /\ req[s].op = "delete" /\ res[s] = "Deleted"
    /\ PinchesOf(req[s].agent) = {}
    /\ claws = {} /\ repinches = {}
    /\ karma[req[s].agent] = 2

\* ---------------------------------------------------------------- C37

\* C37: a follow whose INSERT added no row, the pair being followed
\* already, records no rate-limit event.
RefollowNotRecorded ==
  [][ \A s \in Slots :
        (pc[s] = "f_record" /\ pc'[s] # pc[s] /\ loc[s].rows = 0)
          => rate_limits' = rate_limits ]_vars

\* ---------------------------------------------------------------- C38

\* C38: a pinch that is a reply is in no feed and in no timeline after the
\* next step, whatever the step is, the deletion of its parent included.
ReplyNeverSurfaces ==
  [][ \A p \in Replies :
        /\ \A sort \in Sorts : p \notin FeedRows(sort)'
        /\ \A a \in Agents : p \notin TimelineRows(a)' ]_vars

\* ---------------------------------------------------------------- C39

\* C39: after every step the timeline of an agent holds only pinches of
\* agents it follows then, and none of its own; after the step that answers
\* an unfollow it holds no pinch of the agent unfollowed.
TimelineOfFollowed ==
  [][ /\ \A a \in Agents :
           \A p \in TimelineRows(a)' :
             /\ Following(a, pinches[p].author_id)'
             /\ pinches'[p].author_id # a
      /\ \A s \in Slots, a, t \in Agents :
           (/\ Answers(s, "unfollow") /\ res'[s] = "Unfollowed"
            /\ req'[s].agent = a /\ req'[s].target = t) =>
             \A p \in TimelineRows(a)' : pinches'[p].author_id # t ]_vars

\* An agent has followed and then unfollowed the other agent, whose top-level
\* pinch is in the feed and no longer in the agent's timeline.
UnfollowedLeavesTimeline ==
  \E s \in Slots, p \in PinchIds :
    /\ pc[s] = "idle" /\ req[s].op = "unfollow" /\ res[s] = "Unfollowed"
    /\ rate_limits[<<req[s].agent, "follow">>] # <<>>
    /\ p \in FeedRows("latest") /\ pinches[p].author_id = req[s].target
    /\ ~Following(req[s].agent, req[s].target)
    /\ p \notin TimelineRows(req[s].agent)
    /\ \E q \in PinchIds : Exists(q) /\ pinches[q].author_id = req[s].agent

====
